---------------------------- MODULE Spec2Model ----------------------------
(***************************************************************************)
(* A model of the nvhbackend request handlers: the two auth routers        *)
(* (src/unnamed/part_001 and src/routes/auth.js, both "routes/auth.js"),   *)
(* the listings router (src/routes/listings.js) and the upload router      *)
(* (src/routes/upload.js).                                                 *)
(*                                                                         *)
(* A JavaScript string is a tuple of one-character strings, so that        *)
(* trim(), toLowerCase(), length and ILIKE are computed, not assumed.      *)
(* Undefined stands for a body field that was not sent.                    *)
(*                                                                         *)
(* A handler is cut at the awaits that touch the database: every SQL       *)
(* statement is atomic, and requests interleave between statements.        *)
(***************************************************************************)
EXTENDS Integers, Sequences, FiniteSets, Bags

VARIABLES
    router,        \* which auth router file is mounted
    jwtSecret,     \* process.env.JWT_SECRET, as its length (0: absent or "")
    users,         \* the users table: a set of rows
    listings,      \* the listings table: a set of rows
    nextListingId, \* the listings id sequence
    inflight,      \* the requests waiting between two statements: a bag
    last,          \* the latest response sent
    accepted,      \* history: the registrations answered 201
    objects        \* the keys stored in the 'house-images' bucket

vars == <<router, jwtSecret, users, listings, nextListingId, inflight, last, accepted,
         objects>>

-----------------------------------------------------------------------------
(* Bounds *)

MaxInFlight == 2
MaxListings == 1

-----------------------------------------------------------------------------
(* Strings *)

Rep(c, n) == [i \in 1..n |-> c]

RECURSIVE TrimStart(_)
TrimStart(s) == IF s # <<>> /\ Head(s) = " " THEN TrimStart(Tail(s)) ELSE s

RECURSIVE TrimEnd(_)
TrimEnd(s) ==
    IF s # <<>> /\ s[Len(s)] = " " THEN TrimEnd(SubSeq(s, 1, Len(s) - 1)) ELSE s

\* String.prototype.trim
Trim(s) == TrimEnd(TrimStart(s))

LowerChar(c) ==
    CASE c = "A" -> "a"
      [] c = "B" -> "b"
      [] OTHER -> c

\* String.prototype.toLowerCase
ToLowerCase(s) == [i \in 1..Len(s) |-> LowerChar(s[i])]

\* a body field that was not sent (undefined; NULL once stored)
Undefined == <<"undefined">>

\* `!x` for a string field: undefined or ""
Falsy(x) == x = Undefined \/ x = <<>>

-----------------------------------------------------------------------------
(* Auth: the two router files *)

Routers == {"part_001", "routes/auth.js"}

MinPasswordLength == 6
MinSecretLength == 20

\* process.env.JWT_SECRET: absent, one short of the minimum, the minimum
SecretLengths == {0, MinSecretLength - 1, MinSecretLength}

NoToken == [userId |-> 0, email |-> <<>>]

\* jwt.sign({ userId: user.id, email: user.email }, secret, ...)
JwtSign(user) == [userId |-> user.id, email |-> user.email]

\* bcrypt.hash: one-way and injective on these inputs; the salt is left out
BcryptHash(password) == <<"bcrypt">> \o password

\* bcrypt.compare
BcryptCompare(password, hash) == BcryptHash(password) = hash

\* a router that forgets toLowerCase()
CleanEmail_NoLowerCase(email) == Trim(email)

\* email.toLowerCase().trim()
CleanEmail(email) == Trim(ToLowerCase(email))

MissingField(body) ==
    Falsy(body.name) \/ Falsy(body.email) \/ Falsy(body.phone) \/ Falsy(body.password)

\* part_001: password.trim().length < 6
PasswordTooShort_part001(password) == Len(Trim(password)) < MinPasswordLength

\* routes/auth.js: password.length < 6
PasswordTooShort_auth(password) == Len(password) < MinPasswordLength

PasswordTooShort(password) ==
    IF router = "part_001" THEN PasswordTooShort_part001(password)
    ELSE PasswordTooShort_auth(password)

\* part_001: bcrypt.hash(password.trim(), 12)
HashedPassword_part001(password) == BcryptHash(Trim(password))

\* routes/auth.js: bcrypt.hash(password, salt)
HashedPassword_auth(password) == BcryptHash(password)

HashedPassword(password) ==
    IF router = "part_001" THEN HashedPassword_part001(password)
    ELSE HashedPassword_auth(password)

\* part_001: !JWT_SECRET || JWT_SECRET.length < 20
RegisterSecretBad_part001 == jwtSecret = 0 \/ jwtSecret < MinSecretLength

\* routes/auth.js: !JWT_SECRET
RegisterSecretBad_auth == jwtSecret = 0

RegisterSecretBad ==
    IF router = "part_001" THEN RegisterSecretBad_part001 ELSE RegisterSecretBad_auth

\* both files: !JWT_SECRET
LoginSecretBad == jwtSecret = 0

\* the 500 answers' texts
RegisterSecretError ==
    IF router = "part_001" THEN "Server configuration error. Contact admin."
    ELSE "Server configuration error"

LoginSecretError ==
    IF router = "part_001" THEN "Server error" ELSE "Server configuration error"

\* SELECT ... FROM users WHERE email = $1
UsersByEmail(email) == {u \in users : u.email = email}

\* The users table's unique constraints (email UNIQUE, phone UNIQUE): the
\* constraint an INSERT of `row` violates, the email's index coming first.
UniqueViolation(row) ==
    IF \E u \in users : u.email = row.email THEN "users_email_key"
    ELSE IF \E u \in users : u.phone = row.phone THEN "users_phone_key"
    ELSE "none"

\* the users id sequence
NextUserId == Cardinality(users) + 1

Response(op, body, status, error, token, user) ==
    [tick |-> 1 - last.tick, op |-> op, body |-> body,
     status |-> status, error |-> error, token |-> token, user |-> user]

\* a request suspended at an await, with what it holds
Pending(at, body) == [pc |-> at, body |-> body]

\* the register handler up to its first query's answer
RegisterCheck(body) ==
    /\ BagCardinality(inflight) < MaxInFlight
    /\ UNCHANGED <<router, jwtSecret, users, listings, nextListingId, accepted, objects>>
    /\ IF MissingField(body)
       THEN /\ last' = Response("register", body, 400, "All fields are required", NoToken, 0)
            /\ UNCHANGED inflight
       ELSE IF PasswordTooShort(body.password)
       THEN /\ last' = Response("register", body, 400,
                                "Password must be at least 6 characters", NoToken, 0)
            /\ UNCHANGED inflight
       ELSE IF UsersByEmail(CleanEmail(body.email)) # {}
       THEN /\ last' = Response("register", body, 400, "Email already registered", NoToken, 0)
            /\ UNCHANGED inflight
       ELSE /\ inflight' = inflight (+) SetToBag({Pending("reg_insert", body)})
            /\ UNCHANGED last

\* the catch block's answer to a unique violation (error.code === '23505')
RegisterCatch(constraint) ==
    IF constraint = "users_email_key"
    THEN [status |-> 400, error |-> "Email already registered"]
    ELSE IF constraint = "users_phone_key"
    THEN [status |-> 400,
          error |-> IF router = "part_001" THEN "Phone number already in use"
                    ELSE "Phone number already registered"]
    ELSE [status |-> 500, error |-> "Registration failed. Please try again later."]

\* the register handler from the hash to the response
RegisterInsert(p) ==
    /\ p.pc = "reg_insert"
    /\ LET body == p.body
           row == [id |-> NextUserId, name |-> Trim(body.name),
                   email |-> CleanEmail(body.email), phone |-> Trim(body.phone),
                   password |-> HashedPassword(body.password)]
           violated == UniqueViolation(row)
           caught == RegisterCatch(violated)
       IN  /\ inflight' = inflight (-) SetToBag({p})
           /\ UNCHANGED <<router, jwtSecret, listings, nextListingId, objects>>
           /\ IF violated # "none"
              THEN /\ last' = Response("register", body, caught.status, caught.error,
                                       NoToken, 0)
                   /\ UNCHANGED <<users, accepted>>
              ELSE /\ users' = users \cup {row}
                   /\ IF RegisterSecretBad
                      THEN /\ last' = Response("register", body, 500,
                                               RegisterSecretError, NoToken, 0)
                           /\ UNCHANGED accepted
                      ELSE /\ last' = Response("register", body, 201, "",
                                               JwtSign(row), row.id)
                           /\ accepted' = accepted \cup
                                  {[email |-> body.email, password |-> body.password,
                                    userId |-> row.id]}

\* a login handler that tells the caller the email is not registered
UnknownEmail_NotFound ==
    [status |-> 404, error |-> "User not found", token |-> NoToken, user |-> 0]

\* result.rows.length === 0
UnknownEmail ==
    [status |-> 401, error |-> "Invalid email or password", token |-> NoToken, user |-> 0]

\* !isMatch
WrongPassword ==
    [status |-> 401, error |-> "Invalid email or password", token |-> NoToken, user |-> 0]

\* the login handler's answer to `body` in the current state
LoginResult(body) ==
    IF Falsy(body.email) \/ Falsy(body.password)
    THEN [status |-> 400, error |-> "Email and password are required",
          token |-> NoToken, user |-> 0]
    ELSE LET rows == UsersByEmail(CleanEmail(body.email))
         IN  IF rows = {}
             THEN UnknownEmail
             ELSE LET user == CHOOSE u \in rows : TRUE
                  IN  IF ~BcryptCompare(body.password, user.password)
                      THEN WrongPassword
                      ELSE IF LoginSecretBad
                      THEN [status |-> 500, error |-> LoginSecretError,
                            token |-> NoToken, user |-> 0]
                      ELSE [status |-> 200, error |-> "", token |-> JwtSign(user),
                            user |-> user.id]

Login(body) ==
    /\ LET r == LoginResult(body)
       IN  last' = Response("login", body, r.status, r.error, r.token, r.user)
    /\ UNCHANGED <<router, jwtSecret, users, listings, nextListingId, inflight, accepted, objects>>

-----------------------------------------------------------------------------
(* Auth: the requests sent *)

ShortPassword == Rep("p", MinPasswordLength - 1)
GoodPassword == Rep("p", MinPasswordLength)
PaddedShortPassword == ShortPassword \o <<" ">>
PaddedGoodPassword == <<" ">> \o GoodPassword

RegisterBody(name, email, phone, password) ==
    [name |-> name, email |-> email, phone |-> phone, password |-> password]

RegisterBodies ==
    { RegisterBody(<<"n">>, <<"a">>, <<"1">>, GoodPassword),
      RegisterBody(<<"n">>, <<" ", "A">>, <<"1">>, GoodPassword),
      RegisterBody(<<"n">>, <<"A">>, <<"2">>, PaddedGoodPassword),
      RegisterBody(<<"n">>, <<"b">>, <<"1">>, GoodPassword),
      RegisterBody(<<"n">>, <<"b">>, <<"2">>, PaddedShortPassword),
      RegisterBody(<<"n">>, <<"a">>, <<"2">>, ShortPassword),
      RegisterBody(Undefined, <<"a">>, <<"1">>, GoodPassword),
      RegisterBody(<<"n">>, <<>>, <<"1">>, GoodPassword),
      RegisterBody(<<"n">>, <<"b">>, Undefined, GoodPassword),
      RegisterBody(<<"n">>, <<"b">>, <<"2">>, Undefined) }

LoginBody(email, password) == [email |-> email, password |-> password]

LoginBodies ==
    { LoginBody(<<"a">>, GoodPassword),
      LoginBody(<<" ", "A">>, GoodPassword),
      LoginBody(<<"A">>, PaddedGoodPassword),
      LoginBody(<<"a">>, ShortPassword),
      LoginBody(<<"b">>, GoodPassword),
      LoginBody(<<"b">>, PaddedShortPassword),
      LoginBody(Undefined, GoodPassword),
      LoginBody(<<"a">>, <<>>) }

NoResponse ==
    [tick |-> 0, op |-> "none", body |-> <<>>, status |-> 0,
     error |-> "", token |-> NoToken, user |-> 0]

InitAuth ==
    /\ router \in Routers
    /\ jwtSecret \in SecretLengths
    /\ users = {}
    /\ listings = {}
    /\ nextListingId = 1
    /\ inflight = EmptyBag
    /\ last = NoResponse
    /\ accepted = {}
    /\ objects = {}

NextAuth ==
    \/ \E body \in RegisterBodies : RegisterCheck(body)
    \/ \E p \in BagToSet(inflight) : RegisterInsert(p)
    \/ \E body \in LoginBodies : Login(body)

SpecAuth == InitAuth /\ [][NextAuth]_vars

-----------------------------------------------------------------------------
(* Listings *)

MaxImages == 5

NoListing == [id |-> 0]

\* req.userId, as the authentication guard sets it: a stored user's id
AuthenticatedUsers == {u.id : u \in users}

ListingIds == 1..MaxListings

ListingResponse(op, user, id, body, status, error, listing) ==
    [tick |-> 1 - last.tick, op |-> op, user |-> user, id |-> id, body |-> body,
     status |-> status, error |-> error, listing |-> listing]

\* SELECT ... FROM listings WHERE id = $1
ListingsById(id) == {l \in listings : l.id = id}

\* !title || !category || !location || !county || !phone
MissingRequired(body) ==
    \/ Falsy(body.title)
    \/ Falsy(body.category)
    \/ Falsy(body.location)
    \/ Falsy(body.county)
    \/ Falsy(body.phone)

\* a handler that forgets the upper limit
BadImages_NoUpperLimit(images) == images = Undefined \/ Len(images) = 0

\* !images || images.length === 0 || images.length > 5
BadImages(images) ==
    images = Undefined \/ Len(images) = 0 \/ Len(images) > MaxImages

\* amenities || []
AmenitiesOrEmpty(amenities) == IF amenities = Undefined THEN <<>> ELSE amenities

\* INSERT INTO listings (...) VALUES ($1, ..., $10) RETURNING *
InsertedListing(userId, body) ==
    [id |-> nextListingId, user_id |-> userId, title |-> body.title,
     description |-> body.description, category |-> body.category,
     custom_category |-> body.custom_category, location |-> body.location,
     county |-> body.county, phone |-> body.phone,
     amenities |-> AmenitiesOrEmpty(body.amenities), images |-> body.images]

\* router.post('/')
Create(userId, body) ==
    /\ UNCHANGED <<router, jwtSecret, users, inflight, accepted, objects>>
    /\ IF MissingRequired(body)
       THEN /\ last' = ListingResponse("create", userId, 0, body, 400,
                                       "Missing required fields", NoListing)
            /\ UNCHANGED <<listings, nextListingId>>
       ELSE IF BadImages(body.images)
       THEN /\ last' = ListingResponse("create", userId, 0, body, 400,
                                       "Please provide 1-5 images", NoListing)
            /\ UNCHANGED <<listings, nextListingId>>
       ELSE /\ nextListingId <= MaxListings
            /\ listings' = listings \cup {InsertedListing(userId, body)}
            /\ nextListingId' = nextListingId + 1
            /\ last' = ListingResponse("create", userId, nextListingId, body, 201, "",
                                       InsertedListing(userId, body))

\* SELECT l.*, u.name ... FROM listings l JOIN users u ON l.user_id = u.id WHERE l.id = $1
GetResult(id) ==
    LET rows == {l \in ListingsById(id) : \E u \in users : u.id = l.user_id}
    IN  IF rows = {}
        THEN [status |-> 404, error |-> "Listing not found", listing |-> NoListing]
        ELSE [status |-> 200, error |-> "", listing |-> CHOOSE l \in rows : TRUE]

\* router.get('/:id')
Get(id) ==
    /\ LET r == GetResult(id)
       IN  last' = ListingResponse("get", 0, id, <<>>, r.status, r.error, r.listing)
    /\ UNCHANGED <<router, jwtSecret, users, listings, nextListingId, inflight, accepted, objects>>

\* a handler that skips the ownership comparison
NotOwner_Never(row, userId) == FALSE

\* checkOwnership.rows[0].user_id !== req.userId
NotOwner(row, userId) == row.user_id # userId

\* the ownership check of router.put('/:id') and router.delete('/:id'):
\* "none" when the request goes on to its second statement
OwnershipCheck(userId, id) ==
    LET rows == ListingsById(id)
    IN  IF rows = {} THEN [status |-> 404, error |-> "Listing not found"]
        ELSE IF NotOwner(CHOOSE l \in rows : TRUE, userId)
        THEN [status |-> 403, error |-> "Not authorized"]
        ELSE [status |-> 0, error |-> "none"]

\* router.put('/:id') up to its ownership query's answer
UpdateCheck(userId, id, body) ==
    /\ BagCardinality(inflight) < MaxInFlight
    /\ UNCHANGED <<router, jwtSecret, users, listings, nextListingId, accepted, objects>>
    /\ LET r == OwnershipCheck(userId, id)
       IN  IF r.status # 0
           THEN /\ last' = ListingResponse("update", userId, id, body, r.status, r.error,
                                           NoListing)
                /\ UNCHANGED inflight
           ELSE /\ inflight' = inflight (+)
                       SetToBag({Pending("upd_apply",
                                         [user |-> userId, id |-> id, fields |-> body])})
                /\ UNCHANGED last

\* UPDATE listings SET title = $1, ..., images = $9 WHERE id = $10
UpdatedListing(row, body) ==
    [id |-> row.id, user_id |-> row.user_id, title |-> body.title,
     description |-> body.description, category |-> body.category,
     custom_category |-> body.custom_category, location |-> body.location,
     county |-> body.county, phone |-> body.phone,
     amenities |-> body.amenities, images |-> body.images]

\* router.put('/:id') from its UPDATE to the response: result.rows[0] is
\* undefined when the UPDATE matched no row
UpdateApply(p) ==
    /\ p.pc = "upd_apply"
    /\ inflight' = inflight (-) SetToBag({p})
    /\ UNCHANGED <<router, jwtSecret, users, nextListingId, accepted, objects>>
    /\ LET rows == ListingsById(p.body.id)
       IN  IF rows = {}
           THEN /\ UNCHANGED listings
                /\ last' = ListingResponse("update", p.body.user, p.body.id, p.body.fields,
                                           200, "", NoListing)
           ELSE LET row == CHOOSE l \in rows : TRUE
                    new == UpdatedListing(row, p.body.fields)
                IN  /\ listings' = (listings \ {row}) \cup {new}
                    /\ last' = ListingResponse("update", p.body.user, p.body.id,
                                               p.body.fields, 200, "", new)

\* router.delete('/:id') up to its ownership query's answer
DeleteCheck(userId, id) ==
    /\ BagCardinality(inflight) < MaxInFlight
    /\ UNCHANGED <<router, jwtSecret, users, listings, nextListingId, accepted, objects>>
    /\ LET r == OwnershipCheck(userId, id)
       IN  IF r.status # 0
           THEN /\ last' = ListingResponse("delete", userId, id, <<>>, r.status, r.error,
                                           NoListing)
                /\ UNCHANGED inflight
           ELSE /\ inflight' = inflight (+)
                       SetToBag({Pending("del_apply",
                                         [user |-> userId, id |-> id, fields |-> <<>>])})
                /\ UNCHANGED last

\* router.delete('/:id') from its DELETE to the response
DeleteApply(p) ==
    /\ p.pc = "del_apply"
    /\ inflight' = inflight (-) SetToBag({p})
    /\ listings' = listings \ ListingsById(p.body.id)
    /\ last' = ListingResponse("delete", p.body.user, p.body.id, <<>>, 200, "", NoListing)
    /\ UNCHANGED <<router, jwtSecret, users, nextListingId, accepted, objects>>

-----------------------------------------------------------------------------
(* Listings: the requests sent *)

Images(n) == Rep("u", n)

ListingBody(title, category, location, county, phone, amenities, images) ==
    [title |-> title, description |-> <<"d">>, category |-> category,
     custom_category |-> Undefined, location |-> location, county |-> county,
     phone |-> phone, amenities |-> amenities, images |-> images]

\* the create requests sent while updates and deletes interleave
ValidCreateBodies ==
    { ListingBody(<<"t">>, <<"c">>, <<"l">>, <<"k">>, <<"1">>, Undefined, Images(1)),
      ListingBody(<<"t">>, <<"c">>, <<"l">>, <<"k">>, <<"1">>, <<"w">>, Images(MaxImages)) }

\* the create requests sent to the create handler alone: every required field
\* sent or not, with too few, enough and too many images
CreateBodies ==
    { ListingBody(t, c, l, k, ph, <<"w">>, Images(n)) :
        t \in {Undefined, <<"t">>}, c \in {<<>>, <<"c">>}, l \in {Undefined, <<"l">>},
        k \in {<<>>, <<"k">>}, ph \in {Undefined, <<"1">>},
        n \in {0, 1, MaxImages, MaxImages + 1} }
    \cup ValidCreateBodies
    \cup { ListingBody(<<"t">>, <<"c">>, <<"l">>, <<"k">>, <<"1">>, <<"w">>, Undefined) }

UpdateBodies ==
    { ListingBody(<<"T">>, <<"c">>, <<"l">>, <<"k">>, <<"2">>, <<"w">>, Images(2)),
      ListingBody(<<"t">>, <<"c">>, <<"l">>, <<"k">>, <<"1">>, <<"w">>, Images(0)),
      ListingBody(<<"t">>, <<"c">>, <<"l">>, <<"k">>, <<"1">>, <<"w">>, Images(MaxImages + 1)) }

\* two users registered earlier
RegisteredUsers ==
    { [id |-> 1, name |-> <<"n">>, email |-> <<"a">>, phone |-> <<"1">>,
       password |-> BcryptHash(GoodPassword)],
      [id |-> 2, name |-> <<"m">>, email |-> <<"b">>, phone |-> <<"2">>,
       password |-> BcryptHash(GoodPassword)] }

NoListingResponse ==
    [tick |-> 0, op |-> "none", user |-> 0, id |-> 0, body |-> <<>>, status |-> 0,
     error |-> "", listing |-> NoListing]

InitListings ==
    /\ router = "part_001"
    /\ jwtSecret = MinSecretLength
    /\ users = RegisteredUsers
    /\ listings = {}
    /\ nextListingId = 1
    /\ inflight = EmptyBag
    /\ last = NoListingResponse
    /\ accepted = {}
    /\ objects = {}

NextListings ==
    \/ \E u \in AuthenticatedUsers, body \in ValidCreateBodies : Create(u, body)
    \/ \E id \in ListingIds : Get(id)
    \/ \E u \in AuthenticatedUsers, id \in ListingIds, body \in UpdateBodies :
           UpdateCheck(u, id, body)
    \/ \E p \in BagToSet(inflight) : UpdateApply(p)
    \/ \E u \in AuthenticatedUsers, id \in ListingIds : DeleteCheck(u, id)
    \/ \E p \in BagToSet(inflight) : DeleteApply(p)

SpecListings == InitListings /\ [][NextListings]_vars

NextCreate ==
    \/ \E u \in AuthenticatedUsers, body \in CreateBodies : Create(u, body)
    \/ \E id \in ListingIds : Get(id)

SpecCreate == InitListings /\ [][NextCreate]_vars

-----------------------------------------------------------------------------
(* Listings: the list query *)

MaxTitleLen == 2
MaxSearchLen == 2

Strings(alphabet, n) == UNION {[1..k -> alphabet] : k \in 0..n}

\* s LIKE p: % is any run of characters, _ any one character, \ makes the
\* next character of the pattern stand for itself
RECURSIVE Like(_, _)
Like(s, p) ==
    IF p = <<>> THEN s = <<>>
    ELSE IF Head(p) = "%"
    THEN Like(s, Tail(p)) \/ (s # <<>> /\ Like(Tail(s), p))
    ELSE IF Head(p) = "_"
    THEN s # <<>> /\ Like(Tail(s), Tail(p))
    ELSE IF Head(p) = "\\" /\ Len(p) >= 2
    THEN s # <<>> /\ Head(s) = p[2] /\ Like(Tail(s), Tail(Tail(p)))
    ELSE s # <<>> /\ Head(s) = Head(p) /\ Like(Tail(s), Tail(p))

\* column ILIKE $n; a NULL column matches nothing
ILike(column, pattern) ==
    column # Undefined /\ Like(ToLowerCase(column), ToLowerCase(pattern))

\* `%${search}%`
SearchPattern(search) == <<"%">> \o search \o <<"%">>

\* the WHERE clause router.get('/') builds, on one row joined to its owner
ListWhere(l, filters) ==
    /\ \E u \in users : u.id = l.user_id
    /\ Falsy(filters.category) \/ l.category = filters.category
    /\ Falsy(filters.location) \/ l.county = filters.location
    /\ \/ Falsy(filters.search)
       \/ ILike(l.title, SearchPattern(filters.search))
       \/ ILike(l.description, SearchPattern(filters.search))

\* router.get('/'): the rows returned (their order is left out)
List(filters) ==
    /\ last' = ListingResponse("list", 0, 0, filters, 200, "",
                               {l \in listings : ListWhere(l, filters)})
    /\ UNCHANGED <<router, jwtSecret, users, listings, nextListingId, inflight, accepted, objects>>

ListFilters ==
    [category : {Undefined, <<"c">>},
     location : {Undefined, <<"k">>},
     search : {Undefined} \cup Strings({"b", "_", "%", "\\"}, MaxSearchLen)]

StoredListing(id, userId, title, description, category, county) ==
    [id |-> id, user_id |-> userId, title |-> title, description |-> description,
     category |-> category, custom_category |-> Undefined, location |-> <<"l">>,
     county |-> county, phone |-> <<"1">>, amenities |-> <<>>, images |-> Images(1)]

\* a table of one or two listings created earlier
InitList ==
    /\ router = "part_001"
    /\ jwtSecret = MinSecretLength
    /\ users = RegisteredUsers
    /\ \E t \in Strings({"a", "B"}, MaxTitleLen) \ {<<>>},
          d \in {Undefined, <<"a">>, <<"b", "A">>},
          c \in {<<"c">>, <<"e">>}, k \in {<<"k">>, <<"j">>},
          more \in SUBSET {StoredListing(2, 2, <<"B", "a">>, <<"a">>, <<"e">>, <<"k">>)} :
            listings = {StoredListing(1, 1, t, d, c, k)} \cup more
    /\ nextListingId = 3
    /\ inflight = EmptyBag
    /\ last = NoListingResponse
    /\ accepted = {}
    /\ objects = {}

NextList == \E filters \in ListFilters : List(filters)

SpecList == InitList /\ [][NextList]_vars

-----------------------------------------------------------------------------
(* Uploads: src/routes/upload.js *)

\* upload.array('images', 5) and req.files.length > 5
MaxUploadFiles == 5

\* limits.fileSize, in bytes
MaxFileSize == 5 * 1024 * 1024

\* '/house-images/': the bucket id between two slashes
Marker == <<"/", "h", "o", "u", "s", "e", "-", "i", "m", "a", "g", "e", "s", "/">>

\* what getPublicUrl puts before '/house-images/':
\* `${SUPABASE_URL}/storage/v1/object/public`, shortened
StorageUrl == <<"s">>

StartsWith(s, prefix) ==
    Len(s) >= Len(prefix) /\ SubSeq(s, 1, Len(prefix)) = prefix

RECURSIVE Concat(_)
Concat(ss) == IF ss = <<>> THEN <<>> ELSE Head(ss) \o Concat(Tail(ss))

DigitChar == <<"0", "1", "2", "3", "4", "5", "6", "7", "8", "9">>

\* `${n}` for a non-negative integer
RECURSIVE Decimal(_)
Decimal(n) ==
    IF n < 10 THEN <<DigitChar[n + 1]>>
    ELSE Decimal(n \div 10) \o <<DigitChar[(n % 10) + 1]>>

\* encodeURI on one character: letters, digits, '/', '-', '.' and ':' stay,
\* a space and '%' are percent-encoded
EncodeChar(c) ==
    IF c = " " THEN <<"%", "2", "0">>
    ELSE IF c = "%" THEN <<"%", "2", "5">>
    ELSE <<c>>

EncodeURI(s) == Concat([i \in 1..Len(s) |-> EncodeChar(s[i])])

\* storage.from('house-images').getPublicUrl(filePath): the client returns
\* encodeURI(`${url}/object/public/house-images/${filePath}`)
GetPublicUrl(filePath) == EncodeURI(StorageUrl \o Marker \o filePath)

\* the first position at or after `from` where sub occurs in s, 0 if none
RECURSIVE IndexOf(_, _, _)
IndexOf(s, sub, from) ==
    IF from + Len(sub) - 1 > Len(s) THEN 0
    ELSE IF SubSeq(s, from, from + Len(sub) - 1) = sub THEN from
    ELSE IndexOf(s, sub, from + 1)

\* String.prototype.split with a non-empty separator
RECURSIVE Split(_, _)
Split(s, sep) ==
    LET i == IndexOf(s, sep, 1)
    IN  IF i = 0 THEN <<s>>
        ELSE <<SubSeq(s, 1, i - 1)>> \o Split(SubSeq(s, i + Len(sep), Len(s)), sep)

\* fileFilter and limits of the multer instance, and the count of
\* upload.array: the handler runs only for requests multer lets through
MulterAccepts(files) ==
    /\ Len(files) <= MaxUploadFiles
    /\ \A i \in 1..Len(files) :
          /\ StartsWith(files[i].mimetype, <<"i", "m", "a", "g", "e", "/">>)
          /\ files[i].size <= MaxFileSize

\* `${Date.now()}-${Math.random().toString(36).substring(7)}-${file.originalname}`
FileName(millis, random, originalname) ==
    Decimal(millis) \o <<"-">> \o random \o <<"-">> \o originalname

\* `listings/${req.userId}/${fileName}`
FilePath(userId, fileName) ==
    <<"l", "i", "s", "t", "i", "n", "g", "s", "/">> \o Decimal(userId) \o <<"/">> \o fileName

\* upload(filePath, buffer, {upsert: false}) reports an error when the
\* service cannot be reached or the key is already stored
StorageUploadError(filePath, stored, up) == ~up \/ filePath \in stored

NoKey == <<"no key">>

UploadResponse(op, user, url, status, error, urls, key) ==
    [tick |-> 1 - last.tick, op |-> op, user |-> user, url |-> url,
     status |-> status, error |-> error, urls |-> urls, key |-> key]

\* the for loop of the upload handler, up to its end or its first throw
RECURSIVE UploadEach(_, _, _, _, _, _, _)
UploadEach(userId, files, millis, randoms, up, stored, urls) ==
    IF files = <<>> THEN [error |-> FALSE, stored |-> stored, urls |-> urls]
    ELSE LET fileName == FileName(millis, Head(randoms), Head(files).originalname)
             filePath == FilePath(userId, fileName)
         IN  IF StorageUploadError(filePath, stored, up)
             THEN [error |-> TRUE, stored |-> stored, urls |-> urls]
             ELSE UploadEach(userId, Tail(files), millis, Tail(randoms), up,
                             stored \cup {filePath},
                             Append(urls, GetPublicUrl(filePath)))

\* POST /upload
Upload(userId, files, millis, randoms, up) ==
    /\ MulterAccepts(files)
    /\ UNCHANGED <<router, jwtSecret, users, listings, nextListingId, inflight, accepted>>
    /\ IF files = <<>>
       THEN /\ last' = UploadResponse("upload", userId, Undefined, 400,
                                      "No files uploaded", <<>>, NoKey)
            /\ UNCHANGED objects
       ELSE IF Len(files) > MaxUploadFiles
       THEN /\ last' = UploadResponse("upload", userId, Undefined, 400,
                                      "Maximum 5 images allowed", <<>>, NoKey)
            /\ UNCHANGED objects
       ELSE LET done == UploadEach(userId, files, millis, randoms, up, objects, <<>>)
            IN  /\ objects' = done.stored
                /\ IF done.error
                   THEN last' = UploadResponse("upload", userId, Undefined, 500,
                                               "Failed to upload images", <<>>, NoKey)
                   ELSE last' = UploadResponse("upload", userId, Undefined, 200,
                                               "", done.urls, NoKey)

\* DELETE /upload/image; key is the path handed to storage remove()
DeleteImage(userId, imageUrl, up) ==
    /\ UNCHANGED <<router, jwtSecret, users, listings, nextListingId, inflight, accepted>>
    /\ IF Falsy(imageUrl)
       THEN /\ last' = UploadResponse("deleteImage", userId, imageUrl, 400,
                                      "Image URL required", <<>>, NoKey)
            /\ UNCHANGED objects
       ELSE LET urlParts == Split(imageUrl, Marker)
            IN  IF Len(urlParts) < 2
                THEN /\ last' = UploadResponse("deleteImage", userId, imageUrl, 400,
                                               "Invalid image URL", <<>>, NoKey)
                     /\ UNCHANGED objects
                ELSE LET filePath == urlParts[2]
                     IN  IF ~up
                         THEN /\ last' = UploadResponse("deleteImage", userId, imageUrl, 500,
                                                        "Failed to delete image", <<>>, filePath)
                              /\ UNCHANGED objects
                         ELSE /\ objects' = objects \ {filePath}
                              /\ last' = UploadResponse("deleteImage", userId, imageUrl, 200,
                                                        "", <<>>, filePath)

ImageType == <<"i", "m", "a", "g", "e", "/", "p">>

File(originalname) == [originalname |-> originalname, mimetype |-> ImageType, size |-> 1]

PlainName == <<"a">>
SpacedName == <<"a", " ", "b">>

\* the multipart requests tried: none, one, two and five files, and three
\* that multer turns away (six files, a text file, a file over the limit)
UploadRequests ==
    { <<>>,
      <<File(PlainName)>>,
      <<File(SpacedName)>>,
      <<File(PlainName), File(SpacedName)>>,
      <<File(PlainName), File(PlainName)>>,
      [i \in 1..MaxUploadFiles |-> File(PlainName)],
      [i \in 1..(MaxUploadFiles + 1) |-> File(PlainName)],
      <<[originalname |-> PlainName, mimetype |-> <<"t", "e", "x", "t", "/", "p">>, size |-> 1]>>,
      <<[originalname |-> PlainName, mimetype |-> ImageType, size |-> MaxFileSize + 1]>> }

Millis == {12}
Randoms == {<<"r">>}

\* every key an upload of the model can store
UploadKeys ==
    { FilePath(u.id, FileName(m, r, n)) :
        u \in RegisteredUsers, m \in Millis, r \in Randoms, n \in {PlainName, SpacedName} }

\* the imageUrl values tried: absent, empty, without the marker, the public
\* URL of every key, the same URL not percent-encoded, and a URL that holds
\* the marker twice
DeleteUrls ==
    { Undefined, <<>>, StorageUrl \o <<"/", "x">>,
      StorageUrl \o Marker \o <<"a">> \o Marker \o <<"b">> }
      \cup { GetPublicUrl(k) : k \in UploadKeys }
      \cup { StorageUrl \o Marker \o k : k \in UploadKeys }

NoUploadResponse ==
    [tick |-> 0, op |-> "none", user |-> 0, url |-> Undefined, status |-> 0,
     error |-> "", urls |-> <<>>, key |-> NoKey]

InitUpload ==
    /\ router = "part_001"
    /\ jwtSecret = MinSecretLength
    /\ users = RegisteredUsers
    /\ listings = {}
    /\ nextListingId = 1
    /\ inflight = EmptyBag
    /\ last = NoUploadResponse
    /\ accepted = {}
    /\ objects = {}

NextUpload ==
    \/ \E userId \in AuthenticatedUsers, files \in UploadRequests, millis \in Millis, up \in BOOLEAN :
          \E randoms \in [1..Len(files) -> Randoms] :
             Upload(userId, files, millis, randoms, up)
    \/ \E userId \in AuthenticatedUsers, imageUrl \in DeleteUrls, up \in BOOLEAN :
          DeleteImage(userId, imageUrl, up)

SpecUpload == InitUpload /\ [][NextUpload]_vars

-----------------------------------------------------------------------------
(* Claims *)

\* the step sends a response to a request of kind `op`
Responds(op) == last'.tick # last.tick /\ last'.op = op

\* the lower-cased, trimmed form of an email, spelled out
Normalized(email) == Trim(ToLowerCase(email))

EmailHeld(email) == \E u \in users : Normalized(u.email) = Normalized(email)

OneRowPerEmail ==
    \A u, v \in users : Normalized(u.email) = Normalized(v.email) => u = v

AnsweredEmailTaken ==
    /\ last'.status = 400
    /\ last'.error = "Email already registered"
    /\ users' = users

\* C1, as stated: at most one user row per normalized email, and every
\* register request whose normalized email a stored user already holds is
\* answered 400 'Email already registered' and adds no row.
C1_EveryHeldEmailAnsweredTaken ==
    /\ []OneRowPerEmail
    /\ [][(Responds("register") /\ last'.body.email # Undefined
                /\ EmailHeld(last'.body.email))
            => AnsweredEmailTaken]_vars

\* the request passes the handler's input validation, spelled out per router
PassesValidation(body) ==
    /\ \A f \in {body.name, body.email, body.phone, body.password} :
           f # Undefined /\ f # <<>>
    /\ IF router = "part_001" THEN Len(Trim(body.password)) >= MinPasswordLength
       ELSE Len(body.password) >= MinPasswordLength

\* C1, amended: at most one user row per normalized email, and every register
\* request that passes input validation and whose normalized email a stored
\* user already holds is answered 400 'Email already registered' and adds no
\* row, whatever the casing of the email sent.
C1_ValidHeldEmailAnsweredTaken ==
    /\ []OneRowPerEmail
    /\ [][(Responds("register") /\ PassesValidation(last'.body)
                /\ EmailHeld(last'.body.email))
            => AnsweredEmailTaken]_vars

\* C1's case: a request whose email differs in case and spacing from the
\* stored one was answered 'Email already registered'.
C1_Witness ==
    /\ last.op = "register"
    /\ last.error = "Email already registered"
    /\ last.body.email = <<" ", "A">>
    /\ \E u \in users : u.email = <<"a">>

\* C2: an update or delete of an existing listing by a user who is not its
\* owner is answered 403 and leaves the listing as it was.
C2_NonOwnerForbidden ==
    [][\A l \in listings :
         ((Responds("update") \/ Responds("delete"))
              /\ last'.id = l.id /\ last'.user # l.user_id)
           => (last'.status = 403 /\ l \in listings')]_vars

\* C2's case: a user who does not own a stored listing asked to update it and
\* was answered 403.
C2_Witness ==
    /\ last.op = "update"
    /\ last.status = 403
    /\ \E l \in listings : l.id = last.id /\ l.user_id # last.user

\* the fields an update sends, as a row holds them
SameFields(l, body) ==
    /\ l.title = body.title
    /\ l.description = body.description
    /\ l.category = body.category
    /\ l.custom_category = body.custom_category
    /\ l.location = body.location
    /\ l.county = body.county
    /\ l.phone = body.phone
    /\ l.amenities = body.amenities
    /\ l.images = body.images

\* C3: after an update answered with success, a get of that id returns the
\* listing with the fields the update sent; after a delete answered with
\* success, a get of that id returns 404.
C3_OwnerMutationVisible ==
    /\ (last.op = "update" /\ last.status = 200)
         => /\ GetResult(last.id).status = 200
            /\ SameFields(GetResult(last.id).listing, last.body)
    /\ (last.op = "delete" /\ last.status = 200)
         => GetResult(last.id).status = 404

\* C4: while the signing secret is absent or shorter than 20 characters, no
\* register or login response carries a token or reports success.
C4_NoTokenWithoutSecret ==
    (jwtSecret < MinSecretLength /\ last.op \in {"register", "login"})
      => (last.token = NoToken /\ last.status \notin {200, 201})

\* the login names a registered email with a password that is not its own
WrongPasswordLogin(body) ==
    \E u \in users :
        /\ Normalized(u.email) = Normalized(body.email)
        /\ u.password # BcryptHash(body.password)

\* C5: a login with an unregistered email and a login with a registered email
\* and a wrong password get the same answer: 401 'Invalid email or password',
\* and nothing else.
C5_LoginFailuresAlike ==
    (last.op = "login" /\ ~Falsy(last.body.email) /\ ~Falsy(last.body.password)
        /\ (~EmailHeld(last.body.email) \/ WrongPasswordLogin(last.body)))
      => /\ last.status = 401
         /\ last.error = "Invalid email or password"
         /\ last.token = NoToken
         /\ last.user = 0

\* C5's case: a login with a registered email and a wrong password was refused.
C5_Witness ==
    /\ last.op = "login"
    /\ last.status = 401
    /\ WrongPasswordLogin(last.body)
    /\ last.body.password = ShortPassword

\* C6: a register request whose password has fewer than 6 characters once
\* trimmed is answered 400, and no user row holds its password.
C6_ShortPasswordRejected ==
    (last.op = "register" /\ last.body.password # Undefined
        /\ Len(Trim(last.body.password)) < MinPasswordLength)
      => /\ last.status = 400
         /\ \A u \in users : u.password # BcryptHash(last.body.password)

\* C7: a login with the email and the password of a registration answered 201
\* succeeds, with a token for the user that registration created.
C7_RegisterLoginRoundTrip ==
    last.op = "login" =>
        \A a \in accepted :
            (a.email = last.body.email /\ a.password = last.body.password)
              => /\ last.status = 200
                 /\ last.token = [userId |-> a.userId, email |-> Normalized(a.email)]

\* the create request lacks a required field or has no, or too many, images
InvalidCreate(body) ==
    \/ \E f \in {body.title, body.category, body.location, body.county, body.phone} :
           f = Undefined \/ f = <<>>
    \/ body.images = Undefined
    \/ Len(body.images) = 0
    \/ Len(body.images) > MaxImages

\* C8: a create request that lacks title, category, location, county or phone,
\* or has 0 or more than 5 images, is answered 400 and adds no row; any other
\* is answered 201 and adds exactly one row, owned by the caller, with the
\* fields sent and with empty amenities when none were sent.
C8_CreateValidation ==
    [][Responds("create") =>
         IF InvalidCreate(last'.body)
         THEN last'.status = 400 /\ listings' = listings
         ELSE /\ last'.status = 201
              /\ \E l \in listings' :
                    /\ l \notin listings
                    /\ listings' = listings \cup {l}
                    /\ l.user_id = last'.user
                    /\ l.title = last'.body.title
                    /\ l.images = last'.body.images
                    /\ l.amenities = IF last'.body.amenities = Undefined THEN <<>>
                                     ELSE last'.body.amenities]_vars

\* C8's case: a request with every required field, one image and no amenities
\* was answered 201, and its row is stored with empty amenities.
C8_Witness ==
    /\ last.op = "create"
    /\ last.status = 201
    /\ last.body.amenities = Undefined
    /\ \E l \in listings :
          l.id = last.id /\ l.user_id = last.user /\ l.amenities = <<>>

\* C9: every stored listing holds between 1 and 5 images.
C9_OneToFiveImages ==
    \A l \in listings : l.images # Undefined /\ Len(l.images) \in 1..MaxImages

\* `sub` occurs in `s`
Contains(s, sub) ==
    \E i \in 0..(Len(s) - Len(sub)) : SubSeq(s, i + 1, i + Len(sub)) = sub

ContainsIgnoringCase(column, search) ==
    column # Undefined /\ Contains(ToLowerCase(column), ToLowerCase(search))

\* C10: list returns exactly the stored listings whose category equals the
\* category filter, whose county equals the location filter and whose title
\* or description contains the search string, case ignored; a filter that is
\* not sent restricts nothing.
C10_ListFilters ==
    last.op = "list" =>
        last.listing =
            {l \in listings :
                /\ last.body.category \in {Undefined, l.category}
                /\ last.body.location \in {Undefined, l.county}
                /\ \/ last.body.search = Undefined
                   \/ ContainsIgnoringCase(l.title, last.body.search)
                   \/ ContainsIgnoringCase(l.description, last.body.search)}

\* C12: an update is answered with success only if its UPDATE found the
\* listing, and the response then carries the updated row; an update of a
\* listing that is gone is never answered 200.
C12_UpdateSuccessHasListing ==
    (last.op = "update" /\ last.status = 200)
      => /\ ListingsById(last.id) # {}
         /\ last.listing \in ListingsById(last.id)
         /\ SameFields(last.listing, last.body)

SuffixAfterMarker(url) ==
    SubSeq(url, IndexOf(url, Marker, 1) + Len(Marker), Len(url))

HasMarker(url) == IndexOf(url, Marker, 1) # 0

\* C11: deleteImage answers 400 and hands no key to the storage delete when
\* the URL is absent or lacks '/house-images/'; otherwise the key it deletes
\* is the whole of the URL after the marker, so that deleting the public URL
\* of a key stored by uploadImages deletes that key.
C11_DeleteImageKey ==
    last.op = "deleteImage" =>
      /\ (Falsy(last.url) \/ ~HasMarker(last.url))
            => (last.status = 400 /\ last.key = NoKey)
      /\ (~Falsy(last.url) /\ HasMarker(last.url))
            => last.key = SuffixAfterMarker(last.url)
      /\ \A k \in UploadKeys :
            last.url = GetPublicUrl(k)
               => (last.key = k /\ (last.status = 200 => k \notin objects))

-----------------------------------------------------------------------------

Init == InitAuth

Next == NextAuth \/ NextListings \/ NextUpload

Spec == Init /\ [][Next]_vars

=============================================================================
